---- MODULE Spec2Model ----
(***************************************************************************)
(* A model of the two entry points of StashWebpRemover:                    *)
(*   - the host plugin  StashWebpRemover.run   (StashWebpRemover.py), and  *)
(*   - the stand-alone  process_scenes / run   (webp_remover.py).          *)
(* Paths are sequences of characters so that lower(), endswith() and the   *)
(* slice screenshot[:-5] are computed as the code computes them.  File     *)
(* contents are reduced to what the code can observe of them: the bytes    *)
(* [0:4] and [8:12] of the header and whether the pixel data decodes.      *)
(***************************************************************************)
EXTENDS Integers, Sequences, FiniteSets, TLC

VARIABLES
    entry,          \* which entry point runs: "plugin" or "remover"
    cfg,            \* plugin settings, read once at the top of run
    db,             \* remote store: sequence of [screenshot, images], id = index
    fs,             \* local filesystem: path -> content
    pc,             \* position of the running entry point
    scenes,         \* the listing held by the run (a snapshot of db)
    i,              \* 1-based index of the record the loop visits next
    processed,      \* plugin counter
    converted,      \* plugin counter
    report_lines,   \* plugin report, in order
    trace,          \* per visited record: which guard fired and which were evaluated
    fsOps,          \* {<<op, path>>}: file writes and removes issued by this run
    updateCalls,    \* {<<id, ref>>}: update_scene calls issued by this run
    webpHits,       \* contents of the assets an entry point classified as WebP
    listing,        \* how the listing call of the current run ended, "" before it
    runNo,          \* 1 for the first run of the plugin, 2 for a re-run
    first,          \* what the first run left behind (fs, db, whether it was clean)
    blobs,          \* remover: the files of the blobs directory
    pillow,         \* remover: whether the import of PIL succeeded
    stats,          \* remover: the stats dictionary of process_scenes
    output          \* remover: what run printed, and its exit status

vars == <<entry, cfg, db, fs, pc, scenes, i, processed, converted, report_lines,
          trace, fsOps, updateCalls, webpHits, listing, runNo, first, blobs, pillow, stats, output>>

-----------------------------------------------------------------------------
(* Bounds of the model *)

MaxScenes == 2

MaxBatch == 2

-----------------------------------------------------------------------------
(* Strings, as the code manipulates them *)

DotWebp == <<".", "w", "e", "b", "p">>

DotJpg == <<".", "j", "p", "g">>

LowerChar(c) ==
    CASE c = "W" -> "w"
      [] c = "E" -> "e"
      [] c = "B" -> "b"
      [] c = "P" -> "p"
      [] OTHER -> c

Lower(s) == [k \in 1..Len(s) |-> LowerChar(s[k])]

EndsWith(s, suf) ==
    /\ Len(s) >= Len(suf)
    /\ SubSeq(s, Len(s) - Len(suf) + 1, Len(s)) = suf

\* Python's s[:-5]: everything but the last five characters, "" when s is shorter
DropLast5(s) == IF Len(s) > Len(DotWebp) THEN SubSeq(s, 1, Len(s) - Len(DotWebp)) ELSE <<>>

IsWebpName(screenshot) == EndsWith(Lower(screenshot), DotWebp)

JpgPath(screenshot) == DropLast5(screenshot) \o DotJpg

-----------------------------------------------------------------------------
(* File contents *)

Absent    == [exists |-> FALSE, head |-> "",     tag |-> "",     intact |-> FALSE]

WebpGood  == [exists |-> TRUE,  head |-> "RIFF", tag |-> "WEBP", intact |-> TRUE]

WebpTrunc == [exists |-> TRUE,  head |-> "RIFF", tag |-> "WEBP", intact |-> FALSE]

RiffWave  == [exists |-> TRUE,  head |-> "RIFF", tag |-> "WAVE", intact |-> FALSE]

Jpeg      == [exists |-> TRUE,  head |-> "JPEG", tag |-> "JFIF", intact |-> TRUE]

Partial   == [exists |-> TRUE,  head |-> "JPEG", tag |-> "JFIF", intact |-> FALSE]

Text      == [exists |-> TRUE,  head |-> "TEXT", tag |-> "TEXT", intact |-> FALSE]

\* header[:4] == b'RIFF' and header[8:12] == b'WEBP'
HasWebpMagic(c) == c.head = "RIFF" /\ c.tag = "WEBP"

\* the format Pillow's Image.open recognises from the header, "" when it raises
ImageFormat(c) ==
    IF ~c.exists THEN ""
    ELSE IF HasWebpMagic(c) THEN "WEBP"
    ELSE IF c.head = "JPEG" THEN "JPEG"
    ELSE ""

\* Image.open(path).convert("RGB") succeeds
Decodes(c) == ImageFormat(c) # "" /\ c.intact

-----------------------------------------------------------------------------
(* The paths and the filesystem the runs start from *)

NoRef  == <<>>

AWebp  == <<"a", ".", "w", "e", "b", "p">>

BWebp  == <<"B", ".", "W", "E", "B", "P">>

CWebp  == <<"c", ".", "w", "e", "b", "p">>

EfPng  == <<"e", "f", ".", "p", "n", "g">>

ReportPath(n) == <<"r", "e", "p", "o", "r", "t", IF n = 1 THEN "1" ELSE "2">>

Refs == {NoRef, AWebp, BWebp, CWebp, EfPng}

AllPaths == (Refs \ {NoRef}) \cup {JpgPath(r) : r \in Refs \ {NoRef}}
              \cup {ReportPath(1), ReportPath(2)}

\* a.webp: a WebP;  B.WEBP: a WebP whose JPEG already exists;  c.webp: a RIFF
\* file that is no image, under a .webp name;  ef.png: an image, not a .webp name
InitialFs ==
    [p \in AllPaths |->
        CASE p = AWebp -> WebpGood
          [] p = BWebp -> WebpGood
          [] p = JpgPath(BWebp) -> Jpeg
          [] p = CWebp -> RiffWave
          [] p = EfPng -> Jpeg
          [] OTHER -> Absent]

SceneKinds ==
    {[screenshot |-> NoRef, images |-> 3],
     [screenshot |-> AWebp, images |-> 1], [screenshot |-> AWebp, images |-> 3],
     [screenshot |-> BWebp, images |-> 1], [screenshot |-> CWebp, images |-> 1],
     [screenshot |-> EfPng, images |-> 1]}

SceneLists == UNION {[1..n -> SceneKinds] : n \in 0..MaxScenes}

\* the settings of lines 12-20, jpg_quality and batch_limit in their documented
\* ranges
Configs ==
    [dry_run : BOOLEAN, delete_webp : BOOLEAN, jpg_quality : {85},
     convert_only_missing : BOOLEAN, rebuild_paths : BOOLEAN, skip_multi : BOOLEAN,
     batch_limit : 0..MaxBatch, write_report : BOOLEAN, preview_mode : BOOLEAN]

\* lines 14 and 18 take whatever integer the host hands over: jpg_quality below,
\* inside and above 1..100, batch_limit negative as well
SettingsConfigs ==
    [dry_run : {FALSE}, delete_webp : {TRUE}, jpg_quality : {0, 85, 101},
     convert_only_missing : BOOLEAN, rebuild_paths : BOOLEAN, skip_multi : BOOLEAN,
     batch_limit : (-1)..MaxBatch, write_report : {TRUE}, preview_mode : BOOLEAN]

\* webp_remover.py reads no settings; its JPEG quality is the 90 of line 226
NoConfig ==
    [dry_run |-> FALSE, delete_webp |-> FALSE, jpg_quality |-> 90,
     convert_only_missing |-> FALSE,
     rebuild_paths |-> FALSE, skip_multi |-> FALSE, batch_limit |-> 0,
     write_report |-> FALSE, preview_mode |-> FALSE]

NoFirst == [done |-> FALSE, clean |-> FALSE, fs |-> InitialFs, db |-> <<>>]

NoStats ==
    [total_scenes |-> 0, webp_screenshots_found |-> 0, successfully_replaced |-> 0,
     replacements |-> <<>>, errors |-> <<>>]

NoOutput == [printed |-> FALSE, success |-> FALSE, exit |-> 0]

-----------------------------------------------------------------------------
(* StashWebpRemover.run of the plugin *)

InitPluginWith(settings) ==
    /\ entry = "plugin"
    /\ cfg \in settings
    /\ db \in SceneLists
    /\ fs = InitialFs
    /\ pc = "start"
    /\ scenes = <<>>
    /\ i = 1
    /\ processed = 0
    /\ converted = 0
    /\ report_lines = <<>>
    /\ trace = <<>>
    /\ fsOps = {}
    /\ updateCalls = {}
    /\ webpHits = {}
    /\ listing = ""
    /\ runNo = 1
    /\ first = NoFirst
    /\ blobs = <<>>
    /\ pillow = TRUE
    /\ stats = NoStats
    /\ output = NoOutput

InitPlugin == InitPluginWith(Configs)

Exists(p) == p \in DOMAIN fs /\ fs[p].exists

Content(p) == IF p \in DOMAIN fs THEN fs[p] ELSE Absent

WriteFile(f, p, c) == [q \in DOMAIN f \cup {p} |-> IF q = p THEN c ELSE f[q]]

\* the comparison taken strictly: one record too many gets through
BatchLimitReachedLate(limit, n) == limit > 0 /\ n > limit

\* line 40: batch_limit > 0 and processed >= batch_limit
BatchLimitReached(limit, n) == limit > 0 /\ n >= limit

\* line 47: not screenshot
NoScreenshot(scene) == scene.screenshot = NoRef

\* the threshold taken as "more than three images"
IsMultiImageAboveThree(scene) == cfg.skip_multi /\ scene.images > 3

\* line 51: skip_multi and len(images) > 1
IsMultiImage(scene) == cfg.skip_multi /\ scene.images > 1

\* the setting read inverted
TargetExistsInverted(scene) == ~cfg.convert_only_missing /\ Exists(JpgPath(scene.screenshot))

\* line 59: convert_only_missing and os.path.exists(jpg_path)
TargetExists(scene) == cfg.convert_only_missing /\ Exists(JpgPath(scene.screenshot))

\* dry_run ignored
MutatesAlways(dry_run) == TRUE

\* lines 74 and 87: the mutations run only when dry_run is off
Mutates(dry_run) == ~dry_run

\* delete_webp ignored
RemovesSourceAlways(delete_webp) == TRUE

\* line 96: the source is removed only when delete_webp is set
RemovesSource(delete_webp) == delete_webp

\* line 55: is_webp is computed for every record that passed guards 1 and 2
Classified(scene) ==
    IF IsWebpName(scene.screenshot) /\ Exists(scene.screenshot)
    THEN webpHits \cup {Content(scene.screenshot)}
    ELSE webpHits

\* one more record visited: guard g fired after the guards evald were evaluated,
\* and the step it selected ended as o
Visited(g, evald, o) ==
    /\ trace' = Append(trace, [rec |-> i, fired |-> g, evaluated |-> evald, outcome |-> o])
    /\ i' = i + 1

\* preview honoured only together with dry_run
InPreviewOnlyWhenDry == cfg.preview_mode /\ cfg.dry_run

\* line 63: if preview_mode
InPreview == cfg.preview_mode

InLoop ==
    /\ entry = "plugin"
    /\ pc = "loop"
    /\ i <= Len(scenes)
    /\ ~BatchLimitReached(cfg.batch_limit, processed)

\* line 33: stash.find_scenes({}); an exception leaves run, nothing catches it
ListScenes ==
    /\ entry = "plugin"
    /\ pc = "start"
    /\ \E ok \in BOOLEAN :
         IF ok THEN scenes' = db /\ pc' = "loop" /\ listing' = "ok"
               ELSE scenes' = scenes /\ pc' = "crashed" /\ listing' = "transport"
    /\ UNCHANGED <<entry, cfg, db, fs, i, processed, converted, report_lines, trace,
                   fsOps, updateCalls, webpHits, runNo, first, blobs, pillow, stats, output>>

\* lines 40-41: break
BatchBreak ==
    /\ entry = "plugin"
    /\ pc = "loop"
    /\ i <= Len(scenes)
    /\ BatchLimitReached(cfg.batch_limit, processed)
    /\ pc' = "report"
    /\ trace' = Append(trace, [rec |-> i, fired |-> 0, evaluated |-> <<0>>, outcome |-> ""])
    /\ UNCHANGED <<entry, cfg, db, fs, scenes, i, processed, converted, report_lines,
                   fsOps, updateCalls, webpHits, listing, runNo, first, blobs, pillow, stats, output>>

\* the for loop runs out of records
LoopExhausted ==
    /\ entry = "plugin"
    /\ pc = "loop"
    /\ i > Len(scenes)
    /\ pc' = "report"
    /\ UNCHANGED <<entry, cfg, db, fs, scenes, i, processed, converted, report_lines,
                   trace, fsOps, updateCalls, webpHits, listing, runNo, first, blobs, pillow, stats, output>>

\* lines 46-48
SkipNoScreenshot ==
    /\ InLoop
    /\ NoScreenshot(scenes[i])
    /\ Visited(1, <<0, 1>>, "")
    /\ UNCHANGED <<entry, cfg, db, fs, pc, scenes, processed, converted, report_lines,
                   fsOps, updateCalls, webpHits, listing, runNo, first, blobs, pillow, stats, output>>

\* lines 50-52
SkipMultiImage ==
    /\ InLoop
    /\ ~NoScreenshot(scenes[i])
    /\ IsMultiImage(scenes[i])
    /\ Visited(2, <<0, 1, 2>>, "")
    /\ UNCHANGED <<entry, cfg, db, fs, pc, scenes, processed, converted, report_lines,
                   fsOps, updateCalls, webpHits, listing, runNo, first, blobs, pillow, stats, output>>

\* lines 54-60
SkipTargetExists ==
    /\ InLoop
    /\ ~NoScreenshot(scenes[i])
    /\ ~IsMultiImage(scenes[i])
    /\ TargetExists(scenes[i])
    /\ Visited(3, <<0, 1, 2, 3>>, "")
    /\ webpHits' = Classified(scenes[i])
    /\ UNCHANGED <<entry, cfg, db, fs, pc, scenes, processed, converted, report_lines,
                   fsOps, updateCalls, listing, runNo, first, blobs, pillow, stats, output>>

PastGuard3 ==
    /\ InLoop
    /\ ~NoScreenshot(scenes[i])
    /\ ~IsMultiImage(scenes[i])
    /\ ~TargetExists(scenes[i])

\* every record that reaches the preview branch is listed and counted
WouldConvertAlways(scene) == TRUE

\* line 64: is_webp and (not convert_only_missing or not os.path.exists(jpg_path))
WouldConvert(scene) ==
    /\ IsWebpName(scene.screenshot)
    /\ (~cfg.convert_only_missing \/ ~Exists(JpgPath(scene.screenshot)))

\* lines 62-69: the line is appended and processed counted only for a .webp name
Preview ==
    /\ PastGuard3
    /\ InPreview
    /\ Visited(4, <<0, 1, 2, 3, 4>>, "")
    /\ webpHits' = Classified(scenes[i])
    /\ IF WouldConvert(scenes[i])
       THEN /\ report_lines' = Append(report_lines, [kind |-> "preview", id |-> i])
            /\ processed' = processed + 1
       ELSE UNCHANGED <<report_lines, processed>>
    /\ UNCHANGED <<entry, cfg, db, fs, pc, scenes, converted, fsOps, updateCalls,
                   listing, runNo, first, blobs, pillow, stats, output>>

\* lines 72-80: update_scene is outside any try, so its exception leaves run
RewriteRefOnly ==
    /\ PastGuard3
    /\ ~InPreview
    /\ cfg.rebuild_paths /\ ~IsWebpName(scenes[i].screenshot)
    /\ webpHits' = Classified(scenes[i])
    /\ IF Mutates(cfg.dry_run)
       THEN /\ updateCalls' = updateCalls \cup {<<i, scenes[i].screenshot>>}
            /\ \E ok \in BOOLEAN :
                 IF ok
                 THEN /\ db' = [db EXCEPT ![i].screenshot = scenes[i].screenshot]
                      /\ processed' = processed + 1
                      /\ Visited(5, <<0, 1, 2, 3, 4, 5>>, "")
                      /\ pc' = pc
                 ELSE /\ pc' = "crashed"
                      /\ trace' = Append(trace, [rec |-> i, fired |-> 5,
                                                 evaluated |-> <<0, 1, 2, 3, 4, 5>>,
                                                 outcome |-> "raised"])
                      /\ UNCHANGED <<db, processed, i>>
       ELSE /\ processed' = processed + 1
            /\ Visited(5, <<0, 1, 2, 3, 4, 5>>, "")
            /\ UNCHANGED <<updateCalls, db, pc>>
    /\ UNCHANGED <<entry, cfg, fs, scenes, converted, report_lines, fsOps,
                   listing, runNo, first, blobs, pillow, stats, output>>

\* lines 82-84
SkipNotWebp ==
    /\ PastGuard3
    /\ ~InPreview
    /\ ~cfg.rebuild_paths
    /\ ~IsWebpName(scenes[i].screenshot)
    /\ Visited(6, <<0, 1, 2, 3, 4, 5, 6>>, "")
    /\ webpHits' = Classified(scenes[i])
    /\ UNCHANGED <<entry, cfg, db, fs, pc, scenes, processed, converted, report_lines,
                   fsOps, updateCalls, listing, runNo, first, blobs, pillow, stats, output>>


\* lines 86-108: how the body of the try can end.  "dry": nothing is attempted;
\* "open": Image.open/convert raises;  "save": img.save raises and leaves no file;
\* "save_partial": img.save raises after the file was opened for writing;
\* "update": update_scene raises;  "remove": os.remove raises;  "ok": no exception
ConvertOutcomes(scene) ==
    IF ~Mutates(cfg.dry_run) THEN {"dry"}
    ELSE IF ~Decodes(Content(scene.screenshot)) THEN {"open"}
    ELSE {"ok", "save", "save_partial", "update"}
           \cup (IF RemovesSource(cfg.delete_webp) THEN {"remove"} ELSE {})

\* line 89 was reached and wrote the JPEG
Saved(o) == o \in {"ok", "update", "remove"}

\* lines 91-94 were reached: update_scene was called
UpdateIssued(o) == o \in {"ok", "update", "remove"}

\* the record is never repointed
UpdatedNever(o) == FALSE

\* update_scene returned normally
Updated(o) == o \in {"ok", "remove"}

\* the source is removed although update_scene raised
RemovedThoughNotUpdated(o) == o \in {"ok", "update"} /\ RemovesSource(cfg.delete_webp)

\* line 97 removed the source
Removed(o) == o = "ok" /\ RemovesSource(cfg.delete_webp)

\* lines 99-103 run only when the try body raised nothing
ConvertSucceeded(o) == o \in {"dry", "ok"}

FsAfterConvert(scene, o) ==
    LET jpg == JpgPath(scene.screenshot)
        f1  == IF Saved(o) THEN WriteFile(fs, jpg, Jpeg)
               ELSE IF o = "save_partial" THEN WriteFile(fs, jpg, Partial)
               ELSE fs
    IN  IF Removed(o) THEN WriteFile(f1, scene.screenshot, Absent) ELSE f1

FsOpsAfterConvert(scene, o) ==
    fsOps \cup (IF Saved(o) \/ o = "save_partial"
                THEN {<<"write", JpgPath(scene.screenshot)>>} ELSE {})
          \cup (IF Removed(o) THEN {<<"remove", scene.screenshot>>} ELSE {})

\* no except branch: the exception leaves the loop and run
ConvertErrorUncaught(o) ==
    /\ pc' = "crashed"
    /\ trace' = Append(trace, [rec |-> i, fired |-> 7,
                               evaluated |-> <<0, 1, 2, 3, 4, 5, 6, 7>>, outcome |-> o])
    /\ UNCHANGED <<report_lines, converted, processed, i>>

\* lines 105-108: the except branch only appends a line; the for loop goes on
AfterConvertError(o) ==
    /\ report_lines' = Append(report_lines, [kind |-> "error", id |-> i])
    /\ UNCHANGED <<converted, processed>>
    /\ Visited(7, <<0, 1, 2, 3, 4, 5, 6, 7>>, o)
    /\ pc' = pc

\* lines 99-103
AfterConvertSuccess(o) ==
    /\ report_lines' = Append(report_lines, [kind |-> "converted", id |-> i])
    /\ converted' = converted + 1
    /\ processed' = processed + 1
    /\ Visited(7, <<0, 1, 2, 3, 4, 5, 6, 7>>, o)
    /\ pc' = pc

\* lines 86-108
Convert ==
    /\ PastGuard3
    /\ ~InPreview
    /\ IsWebpName(scenes[i].screenshot)
    /\ webpHits' = Classified(scenes[i])
    /\ \E o \in ConvertOutcomes(scenes[i]) :
         /\ fs' = FsAfterConvert(scenes[i], o)
         /\ fsOps' = FsOpsAfterConvert(scenes[i], o)
         /\ updateCalls' = IF UpdateIssued(o)
                           THEN updateCalls \cup {<<i, JpgPath(scenes[i].screenshot)>>}
                           ELSE updateCalls
         /\ db' = IF Updated(o)
                  THEN [db EXCEPT ![i].screenshot = JpgPath(scenes[i].screenshot)]
                  ELSE db
         /\ IF ConvertSucceeded(o) THEN AfterConvertSuccess(o) ELSE AfterConvertError(o)
    /\ UNCHANGED <<entry, cfg, scenes, listing, runNo, first, blobs, pillow, stats, output>>

\* the first run was clean: no error line, and the batch limit never broke the loop
CleanRun ==
    /\ \A k \in 1..Len(report_lines) : report_lines[k].kind # "error"
    /\ \A k \in 1..Len(trace) : trace[k].fired # 0

\* lines 110-123: the report is written when write_report is set; a failure to
\* write it is caught and logged
WriteReport ==
    /\ entry = "plugin"
    /\ pc = "report"
    /\ pc' = "done"
    /\ \E ok \in BOOLEAN :
         IF cfg.write_report /\ ok
         THEN /\ fs' = WriteFile(fs, ReportPath(runNo), Text)
              /\ fsOps' = fsOps \cup {<<"write", ReportPath(runNo)>>}
         ELSE UNCHANGED <<fs, fsOps>>
    /\ first' = IF runNo = 1
                THEN [done |-> TRUE, clean |-> CleanRun, fs |-> fs', db |-> db]
                ELSE first
    /\ UNCHANGED <<entry, cfg, db, scenes, i, processed, converted, report_lines, trace,
                   updateCalls, webpHits, listing, runNo, blobs, pillow, stats, output>>

\* lines 125-126: the plugin is started again, with the same settings, on what
\* the first run left.  The model follows a second run only after a first run
\* that ended with no error line and no batch break.
Rerun ==
    /\ entry = "plugin"
    /\ pc = "done"
    /\ runNo = 1
    /\ first.clean
    /\ runNo' = 2
    /\ pc' = "start"
    /\ scenes' = <<>>
    /\ i' = 1
    /\ processed' = 0
    /\ converted' = 0
    /\ report_lines' = <<>>
    /\ trace' = <<>>
    /\ fsOps' = {}
    /\ updateCalls' = {}
    /\ listing' = ""
    /\ UNCHANGED <<entry, cfg, db, fs, webpHits, first, blobs, pillow, stats, output>>

NextPlugin ==
    \/ ListScenes
    \/ BatchBreak
    \/ LoopExhausted
    \/ SkipNoScreenshot
    \/ SkipMultiImage
    \/ SkipTargetExists
    \/ Preview
    \/ RewriteRefOnly
    \/ SkipNotWebp
    \/ Convert
    \/ WriteReport
    \/ Rerun

-----------------------------------------------------------------------------
(* process_scenes and run of webp_remover.py *)

ScreenshotWord == <<"s", "c", "r", "e", "e", "n", "s", "h", "o", "t">>

ShotUrl == <<"/">> \o ScreenshotWord

CoverUrl == <<"/", "c", "o", "v", "e", "r">>

\* Python's  sub in s
Contains(s, sub) ==
    \E k \in 0..(Len(s) - Len(sub)) : SubSeq(s, k + 1, k + Len(sub)) = sub

RemoverSceneKinds ==
    {[screenshot |-> NoRef, images |-> 1], [screenshot |-> ShotUrl, images |-> 1],
     [screenshot |-> CoverUrl, images |-> 1]}

RemoverSceneLists == UNION {[1..n -> RemoverSceneKinds] : n \in 0..MaxScenes}

\* a file of the blobs directory: open/read may raise IOError
BlobFiles == [readable : BOOLEAN, content : {WebpGood, Jpeg, RiffWave}]

BlobDirs == UNION {[1..n -> BlobFiles] : n \in 0..1}
              \cup {<<[readable |-> TRUE, content |-> RiffWave],
                      [readable |-> TRUE, content |-> WebpGood]>>}

InitRemover ==
    /\ entry = "remover"
    /\ cfg = NoConfig
    /\ db \in RemoverSceneLists
    /\ fs = InitialFs
    /\ pc = "start"
    /\ scenes = <<>>
    /\ i = 1
    /\ processed = 0
    /\ converted = 0
    /\ report_lines = <<>>
    /\ trace = <<>>
    /\ fsOps = {}
    /\ updateCalls = {}
    /\ webpHits = {}
    /\ listing = ""
    /\ runNo = 1
    /\ first = NoFirst
    /\ blobs \in BlobDirs
    /\ pillow \in BOOLEAN
    /\ stats = NoStats
    /\ output = NoOutput

\* lines 162-171: the files find_webp_files keeps
WebpFilesFound(files) ==
    SelectSeq(files, LAMBDA f : f.readable /\ HasWebpMagic(f.content))

\* lines 279-297: find_webp_files; with no hit process_scenes returns at once
RFindWebpFiles ==
    /\ entry = "remover"
    /\ pc = "start"
    /\ webpHits' = webpHits \cup
                     {WebpFilesFound(blobs)[k].content : k \in 1..Len(WebpFilesFound(blobs))}
    /\ pc' = IF WebpFilesFound(blobs) = <<>> THEN "r_output" ELSE "r_list"
    /\ UNCHANGED <<entry, cfg, db, fs, scenes, i, processed, converted, report_lines,
                   trace, fsOps, updateCalls, listing, runNo, first, blobs, pillow,
                   stats, output>>

\* how the POST of execute_query can end
ListingOutcomes == {"ok", "transport", "http_error", "graphql_errors", "bad_json", "null_data"}

\* lines 39-65: "data" is the 'data' member, "empty" is {}, "none" is the None
\* that data.get('data', {}) returns for a 200 response whose 'data' is null
ExecuteQuery(o) ==
    CASE o = "ok" -> "data"
      [] o = "null_data" -> "none"
      [] OTHER -> "empty"

\* lines 302-311: get_all_scenes; result.get raises on None, which leaves
\* process_scenes; an empty list is reported in stats and process_scenes returns
RListScenes ==
    /\ entry = "remover"
    /\ pc = "r_list"
    /\ \E o \in ListingOutcomes :
         /\ listing' = o
         /\ IF ExecuteQuery(o) = "none"
            THEN pc' = "r_raised" /\ UNCHANGED <<scenes, stats>>
            ELSE /\ scenes' = IF ExecuteQuery(o) = "data" THEN db ELSE <<>>
                 /\ IF scenes' = <<>>
                    THEN /\ stats' = [stats EXCEPT !.errors = Append(@, [kind |-> "fetch", id |-> 0])]
                         /\ pc' = "r_output"
                    ELSE /\ stats' = [stats EXCEPT !.total_scenes = Len(scenes')]
                         /\ pc' = "r_loop"
    /\ UNCHANGED <<entry, cfg, db, fs, i, processed, converted, report_lines, trace,
                   fsOps, updateCalls, webpHits, runNo, first, blobs, pillow, output>>

\* what requests.get can give for the screenshot url
FetchResponses ==
    {[raised |-> TRUE, status |-> 0, ctype |-> "", body |-> Absent]}
      \cup [raised : {FALSE}, status : {200, 404}, ctype : {"image/webp", "text/html"},
            body : {WebpGood, WebpTrunc, Jpeg}]

\* line 201: content_type.startswith('image/')
IsImageType(ctype) == ctype \in {"image/webp", "image/jpeg"}

\* lines 204-214: the response is taken for a WebP
ProbedWebp(r) ==
    /\ pillow
    /\ ~r.raised
    /\ r.status = 200
    /\ IsImageType(r.ctype)
    /\ ImageFormat(r.body) = "WEBP"

\* lines 182-233: JPEG bytes are returned only for a WebP whose conversion
\* raises nothing; every other case, failures included, returns None
DownloadAndConvert(r) == IF ProbedWebp(r) /\ r.body.intact THEN "jpeg" ELSE "none"

\* what execute_raw_query can give for the sceneUpdate mutation; status 0 is
\* the status_code None of a request that raised
UpdateResponses ==
    {[status |-> 0, hasData |-> FALSE, sceneUpdate |-> FALSE, hasErrors |-> FALSE]}
      \cup {r \in [status : {200, 500}, hasData : BOOLEAN, sceneUpdate : BOOLEAN,
                   hasErrors : BOOLEAN] : r.sceneUpdate => r.hasData}

\* lines 262-277
UpdateSceneScreenshot(r) == r.status = 200 /\ r.hasData /\ r.sceneUpdate

\* line 319: screenshot_path and 'screenshot' in screenshot_path
HasScreenshotUrl(scene) ==
    scene.screenshot # NoRef /\ Contains(scene.screenshot, ScreenshotWord)

RVisited(what, fetched, answer) ==
    /\ trace' = Append(trace, [rec |-> i, step |-> what, fetched |-> fetched, answer |-> answer])
    /\ i' = i + 1

NoAnswer == [status |-> 0, hasData |-> FALSE, sceneUpdate |-> FALSE, hasErrors |-> FALSE]

NoFetch == [raised |-> FALSE, status |-> 0, ctype |-> "", body |-> Absent]

\* line 325
FoundWebp(s) == [s EXCEPT !.webp_screenshots_found = @ + 1]

\* the replacement is counted but not listed
ReplacedUnlisted(s, id) == [s EXCEPT !.successfully_replaced = @ + 1]

\* lines 329-336
Replaced(s, id) ==
    [s EXCEPT !.successfully_replaced = @ + 1,
              !.replacements = Append(@, [id |-> id])]

\* lines 338-340
UpdateFailed(s, id) == [s EXCEPT !.errors = Append(@, [kind |-> "update", id |-> id])]

\* lines 313-341, one iteration of the for loop
RScene ==
    /\ entry = "remover"
    /\ pc = "r_loop"
    /\ i <= Len(scenes)
    /\ IF ~HasScreenshotUrl(scenes[i])
       THEN /\ RVisited("no_screenshot", NoFetch, NoAnswer)
            /\ UNCHANGED <<stats, webpHits>>
       ELSE \E r \in FetchResponses :
              /\ webpHits' = IF ProbedWebp(r) THEN webpHits \cup {r.body} ELSE webpHits
              /\ IF DownloadAndConvert(r) = "none"
                 THEN /\ RVisited(IF ProbedWebp(r) THEN "convert_failed" ELSE "not_candidate",
                                  r, NoAnswer)
                      /\ UNCHANGED stats
                 ELSE \E u \in UpdateResponses :
                        IF UpdateSceneScreenshot(u)
                        THEN /\ stats' = Replaced(FoundWebp(stats), i)
                             /\ RVisited("replaced", r, u)
                        ELSE /\ stats' = UpdateFailed(FoundWebp(stats), i)
                             /\ RVisited("update_failed", r, u)
    /\ UNCHANGED <<entry, cfg, db, fs, pc, scenes, processed, converted, report_lines,
                   fsOps, updateCalls, listing, runNo, first, blobs, pillow, output>>

\* line 343: the loop is over, process_scenes returns
RLoopDone ==
    /\ entry = "remover"
    /\ pc = "r_loop"
    /\ i > Len(scenes)
    /\ pc' = "r_output"
    /\ UNCHANGED <<entry, cfg, db, fs, scenes, i, processed, converted, report_lines,
                   trace, fsOps, updateCalls, webpHits, listing, runNo, first, blobs,
                   pillow, stats, output>>

\* lines 348-356: process_scenes returned, success: True is printed
ROutput ==
    /\ entry = "remover"
    /\ pc = "r_output"
    /\ output' = [printed |-> TRUE, success |-> TRUE, exit |-> 0]
    /\ pc' = "done"
    /\ UNCHANGED <<entry, cfg, db, fs, scenes, i, processed, converted, report_lines,
                   trace, fsOps, updateCalls, webpHits, listing, runNo, first, blobs,
                   pillow, stats>>

\* lines 358-364: process_scenes raised, success: False is printed, exit status 1
RFail ==
    /\ entry = "remover"
    /\ pc = "r_raised"
    /\ output' = [printed |-> TRUE, success |-> FALSE, exit |-> 1]
    /\ pc' = "done"
    /\ UNCHANGED <<entry, cfg, db, fs, scenes, i, processed, converted, report_lines,
                   trace, fsOps, updateCalls, webpHits, listing, runNo, first, blobs,
                   pillow, stats>>

NextRemover ==
    \/ RFindWebpFiles
    \/ RListScenes
    \/ RScene
    \/ RLoopDone
    \/ ROutput
    \/ RFail

-----------------------------------------------------------------------------

Init == InitPlugin \/ InitRemover

Next == NextPlugin \/ NextRemover

Spec == Init /\ [][Next]_vars

\* the same program, started with settings outside their documented ranges too
InitSettings == InitPluginWith(SettingsConfigs) \/ InitRemover

SpecSettings == InitSettings /\ [][Next]_vars

-----------------------------------------------------------------------------
(* Properties *)

ReportPaths == {ReportPath(1), ReportPath(2)}

\* the filesystem the current run of the plugin started from
RunStartFs == IF runNo = 1 THEN InitialFs ELSE first.fs

\* no file other than a report differs from what the current run started from
AssetsUntouched ==
    /\ \A p \in DOMAIN fs \ ReportPaths :
         fs[p] = (IF p \in DOMAIN RunStartFs THEN RunStartFs[p] ELSE Absent)
    /\ \A op \in fsOps : op[2] \in ReportPaths

\* the remote store is what the listing of the current run returned
StoreUntouched == listing = "ok" => db = scenes

\* C1 as stated: with previewMode set, a run of the plugin issues no update_scene
\* call and creates, overwrites or deletes no file at all.
C1_PreviewMutatesNothing ==
    (entry = "plugin" /\ cfg.preview_mode) =>
        /\ updateCalls = {}
        /\ fsOps = {}
        /\ fs = RunStartFs
        /\ StoreUntouched

\* C1 amended: with previewMode set, a run of the plugin issues no update_scene
\* call and creates, overwrites or deletes no asset; the only file it can write is
\* its own report, after the loop, and only when write_report is set.
C1_PreviewMutatesNoAsset ==
    (entry = "plugin" /\ cfg.preview_mode) =>
        /\ updateCalls = {}
        /\ StoreUntouched
        /\ AssetsUntouched
        /\ fsOps \subseteq {<<"write", ReportPath(runNo)>>}
        /\ fsOps # {} => (cfg.write_report /\ pc = "done")

C1_Witness ==
    /\ entry = "plugin" /\ runNo = 1 /\ pc = "done"
    /\ cfg.preview_mode /\ cfg.write_report /\ ~cfg.dry_run /\ cfg.delete_webp
    /\ cfg.rebuild_paths
    /\ Len(report_lines) = 1 /\ Len(trace) = 2
    /\ fsOps = {<<"write", ReportPath(1)>>}

\* C2: with batch_limit = N > 0 the processed counter of the plugin never
\* exceeds N, in any state of the run and so at its end.
C2_ProcessedWithinBatchLimit ==
    (entry = "plugin" /\ cfg.batch_limit > 0) => processed <= cfg.batch_limit

C2_Witness ==
    /\ entry = "plugin" /\ pc = "done"
    /\ cfg.batch_limit = 1 /\ processed = 1
    /\ Len(scenes) = 2
    /\ trace[Len(trace)].fired = 0


LinesOf(kind, id) ==
    {k \in 1..Len(report_lines) : report_lines[k].kind = kind /\ report_lines[k].id = id}

ErrorsOf(id) ==
    {k \in 1..Len(stats.errors) : stats.errors[k].kind = "update" /\ stats.errors[k].id = id}

ReplacementsOf(id) ==
    {k \in 1..Len(stats.replacements) : stats.replacements[k].id = id}

NoErrorLine == \A k \in 1..Len(report_lines) : report_lines[k].kind # "error"

BatchBroke == \E k \in 1..Len(trace) : trace[k].fired = 0

\* the plugin: a failed Convert leaves an error line for its record and no
\* "converted" line, counts nothing in converted, and the loop goes on
PluginFailuresIsolated ==
    entry = "plugin" =>
        /\ \A k \in 1..Len(trace) :
             (trace[k].fired = 7 /\ trace[k].outcome \notin {"dry", "ok"}) =>
                /\ LinesOf("error", trace[k].rec) # {}
                /\ LinesOf("converted", trace[k].rec) = {}
                /\ k = Len(trace) => (pc # "crashed" /\ i = trace[k].rec + 1)
        /\ converted = Cardinality({k \in 1..Len(trace) :
                           trace[k].fired = 7 /\ trace[k].outcome \in {"dry", "ok"}})
        /\ (pc \in {"report", "done"} /\ ~BatchBroke) => Len(trace) = Len(scenes)

\* process_scenes: the loop visits every listed record, and successfully_replaced
\* counts only the records whose update succeeded
RemoverLoopGoesOn ==
    entry = "remover" =>
        /\ stats.successfully_replaced =
             Cardinality({k \in 1..Len(trace) : trace[k].step = "replaced"})
        /\ (pc \in {"r_output", "done"} /\ listing = "ok" /\ scenes # <<>>)
              => Len(trace) = Len(scenes)
        /\ \A k \in 1..Len(trace) :
             trace[k].step \in {"convert_failed", "update_failed"} =>
                /\ ReplacementsOf(trace[k].rec) = {}
                /\ k = Len(trace) => (pc # "r_raised" /\ i = trace[k].rec + 1)

C4_ListingFailureAborts ==
    (entry = "remover" /\ pc = "done" /\ listing \notin {"", "ok"}) =>
        /\ output.printed /\ ~output.success /\ output.exit = 1
        /\ trace = <<>>
        /\ stats.successfully_replaced = 0

\* C5: with dry_run set and preview_mode unset the plugin changes no screenshot
\* reference, creates no asset and deletes none, and processed counts exactly
\* the records that reached RewriteRefOnly or Convert.
C5_DryRunMutatesNothing ==
    (entry = "plugin" /\ cfg.dry_run /\ ~cfg.preview_mode) =>
        /\ updateCalls = {}
        /\ StoreUntouched
        /\ AssetsUntouched
        /\ processed = Cardinality({k \in 1..Len(trace) : trace[k].fired \in {5, 7}})

C5_Witness ==
    /\ entry = "plugin" /\ pc = "done" /\ runNo = 1
    /\ cfg.dry_run /\ ~cfg.preview_mode /\ cfg.delete_webp
    /\ Len(trace) = 2 /\ trace[1].fired = 5 /\ trace[2].fired = 7
    /\ processed = 2

\* C6: a record whose screenshot is a WebP asset and whose Convert step ran with
\* dry_run unset and without a failure has, from then on, a converted asset at
\* the rewritten reference and that reference in the store, and its original
\* asset exists exactly when delete_webp is unset.
C6_ConvertedRecordRepointed ==
    entry = "plugin" =>
        \A k \in 1..Len(trace) :
            (/\ trace[k].fired = 7
             /\ trace[k].outcome = "ok"
             /\ HasWebpMagic(RunStartFs[scenes[trace[k].rec].screenshot])) =>
                LET ref == scenes[trace[k].rec].screenshot
                IN  /\ Exists(JpgPath(ref))
                    /\ db[trace[k].rec].screenshot = JpgPath(ref)
                    /\ Exists(ref) <=> ~cfg.delete_webp
                    /\ NoErrorLine => Content(JpgPath(ref)) = Jpeg

C6_Witness ==
    /\ entry = "plugin" /\ pc = "done" /\ runNo = 1
    /\ ~cfg.delete_webp /\ ~cfg.dry_run
    /\ Len(trace) = 1 /\ trace[1].fired = 7 /\ trace[1].outcome = "ok"
    /\ scenes[1].screenshot = AWebp
    /\ db[1].screenshot = JpgPath(AWebp)
    /\ Exists(AWebp) /\ Content(JpgPath(AWebp)) = Jpeg

\* C7: whatever the entry point, an asset is taken for a WebP only if its
\* header has "RIFF" at [0:4] and "WEBP" at [8:12].
C7_WebpOnlyByMagic == \A c \in webpHits : HasWebpMagic(c)


\* C8: with convert_only_missing set, a record whose target jpg_path exists when
\* the loop reaches it is skipped whatever the other settings: the step taken
\* on it changes neither processed, converted nor the report, and issues no
\* metadata update, file write or file delete.
C8_ExistingTargetSkipped ==
    [][(/\ entry = "plugin"
        /\ pc = "loop"
        /\ i <= Len(scenes)
        /\ cfg.convert_only_missing
        /\ scenes[i].screenshot # NoRef
        /\ Exists(JpgPath(scenes[i].screenshot)))
       => (/\ processed' = processed
           /\ converted' = converted
           /\ report_lines' = report_lines
           /\ updateCalls' = updateCalls
           /\ fsOps' = fsOps
           /\ fs' = fs
           /\ db' = db
           /\ pc' \in {"loop", "report"})]_vars

C8_Witness ==
    /\ entry = "plugin" /\ pc = "loop" /\ runNo = 1
    /\ cfg.convert_only_missing /\ ~cfg.preview_mode /\ ~cfg.dry_run /\ cfg.delete_webp
    /\ ~cfg.skip_multi
    /\ Len(trace) = 2
    /\ trace[1].fired = 7 /\ trace[1].outcome = "ok" /\ scenes[1].screenshot = AWebp
    /\ trace[2].fired = 3 /\ scenes[2].screenshot = BWebp
    /\ processed = 1

\* C9 as stated: with skip_multi set, for a visited record with more than one
\* image the guard that fires is guard 2, whatever its screenshot reference.
C9_MultiImageGuardAlwaysFires ==
    entry = "plugin" =>
        \A k \in 1..Len(trace) :
            (cfg.skip_multi /\ scenes[trace[k].rec].images > 1 /\ trace[k].fired # 0)
                => trace[k].fired = 2

\* C9 amended: with skip_multi set, a visited record with more than one image is
\* skipped under every configuration: by guard 2, evaluated after the batch
\* check and guard 1 and before guards 3-7, when it has a screenshot reference,
\* and by guard 1 when it has none.  Nothing is reported or updated for it.
C9_MultiImageSkipped ==
    entry = "plugin" =>
        \A k \in 1..Len(trace) :
            (cfg.skip_multi /\ scenes[trace[k].rec].images > 1 /\ trace[k].fired # 0) =>
                /\ scenes[trace[k].rec].screenshot # NoRef =>
                      (trace[k].fired = 2 /\ trace[k].evaluated = <<0, 1, 2>>)
                /\ scenes[trace[k].rec].screenshot = NoRef =>
                      (trace[k].fired = 1 /\ trace[k].evaluated = <<0, 1>>)
                /\ \A n \in 1..Len(report_lines) : report_lines[n].id # trace[k].rec
                /\ \A u \in updateCalls : u[1] # trace[k].rec

C9_Witness ==
    /\ entry = "plugin" /\ pc = "done"
    /\ cfg.skip_multi /\ cfg.preview_mode /\ cfg.convert_only_missing /\ cfg.rebuild_paths
    /\ Len(trace) = 2
    /\ scenes[1].images = 3 /\ scenes[1].screenshot = AWebp /\ trace[1].fired = 2
    /\ trace[2].fired = 4
    /\ processed = 1

\* C10 as stated: a second run on what a complete, failure-free first run
\* (dry_run and preview_mode unset, batch limit not reached) left converts
\* nothing, creates and deletes no file, and leaves every reference as it was.
C10_RerunChangesNothing ==
    (entry = "plugin" /\ runNo = 2 /\ first.clean /\ ~cfg.dry_run /\ ~cfg.preview_mode) =>
        /\ converted = 0
        /\ fsOps = {}
        /\ fs = first.fs
        /\ db = first.db

\* C10 amended: such a second run converts nothing, creates, overwrites and
\* deletes no asset, and leaves every reference as it was; the only file it
\* can create is its own report, when write_report is set.
C10_RerunChangesNoAsset ==
    (entry = "plugin" /\ runNo = 2 /\ first.clean /\ ~cfg.dry_run /\ ~cfg.preview_mode) =>
        /\ converted = 0
        /\ AssetsUntouched
        /\ fsOps \subseteq {<<"write", ReportPath(2)>>}
        /\ fsOps # {} => cfg.write_report
        /\ db = first.db
        /\ \A k \in 1..Len(trace) : trace[k].fired # 7

C10_Witness ==
    /\ entry = "plugin" /\ runNo = 2 /\ pc = "done"
    /\ first.clean /\ ~cfg.dry_run /\ ~cfg.preview_mode
    /\ cfg.write_report /\ cfg.rebuild_paths /\ ~cfg.delete_webp
    /\ Len(scenes) = 2
    /\ scenes[1].screenshot = JpgPath(AWebp)
    /\ scenes[2].screenshot = JpgPath(BWebp)
    /\ processed = 2
    /\ fsOps = {<<"write", ReportPath(2)>>}

Advanced == {k \in 1..Len(trace) : trace[k].fired \in {4, 5, 7}}

\* C11: with batch_limit = N > 0, at most N records of one run of the plugin
\* get past guards 1-3 (reach Preview, RewriteRefOnly or Convert, failed
\* Converts included), so no record beyond those N is mutated.
C11_AdvancedWithinBatchLimit ==
    (entry = "plugin" /\ cfg.batch_limit > 0) =>
        Cardinality(Advanced) <= cfg.batch_limit

\* C12: a response with an 'errors' entry is a failure whatever its status:
\* update_scene_screenshot does not return True for it, and execute_query
\* returns no data for it, so that no scene is listed.
C12_ErrorPayloadIsFailure ==
    entry = "remover" =>
        /\ \A k \in 1..Len(trace) :
             trace[k].answer.hasErrors =>
                (trace[k].step # "replaced" /\ ReplacementsOf(trace[k].rec) = {})
        /\ listing = "graphql_errors" => (scenes = <<>> /\ trace = <<>>)

PreviewLines == {k \in 1..Len(report_lines) : report_lines[k].kind = "preview"}

\* C13 as stated: with preview_mode set, every record that passed guards 1-3
\* has a "would convert" line and was counted in processed, whatever its asset.
C13_PreviewListsEveryRecord ==
    (entry = "plugin" /\ cfg.preview_mode) =>
        /\ \A k \in Advanced : LinesOf("preview", trace[k].rec) # {}
        /\ processed = Cardinality(Advanced)

\* C13 amended: with preview_mode set, every record that passed guards 1-3
\* takes the preview branch and nothing is mutated for it; the "would convert"
\* line is appended and processed is incremented exactly when the screenshot
\* name ends in ".webp" (case-insensitively), and a record with any other name
\* is passed over without a line and without being counted.
C13_PreviewListsWebpNames ==
    (entry = "plugin" /\ cfg.preview_mode) =>
        /\ \A k \in Advanced :
             /\ trace[k].fired = 4
             /\ Cardinality(LinesOf("preview", trace[k].rec)) =
                  (IF IsWebpName(scenes[trace[k].rec].screenshot) THEN 1 ELSE 0)
        /\ processed = Cardinality({k \in Advanced :
                                      IsWebpName(scenes[trace[k].rec].screenshot)})
        /\ Len(report_lines) = processed
        /\ PreviewLines = 1..Len(report_lines)
        /\ updateCalls = {}
        /\ StoreUntouched
        /\ AssetsUntouched

C13_Witness ==
    /\ entry = "plugin" /\ pc = "done" /\ runNo = 1
    /\ cfg.preview_mode /\ ~cfg.dry_run /\ cfg.rebuild_paths /\ cfg.batch_limit = 0
    /\ Len(trace) = 2
    /\ trace[1].fired = 4 /\ scenes[1].screenshot = EfPng
    /\ trace[2].fired = 4 /\ scenes[2].screenshot = BWebp
    /\ processed = 1
    /\ LinesOf("preview", 1) = {} /\ LinesOf("preview", 2) # {}

ConvertSteps == {k \in 1..Len(trace) : trace[k].fired = 7}

Errored == {k \in ConvertSteps : ~ConvertSucceeded(trace[k].outcome)}

\* C14: every record that reached Convert was counted once in processed, whether
\* its conversion succeeded or failed, and in converted only when it succeeded;
\* hence processed >= converted + the number of errored records.
C14_ProcessedCountsEveryConvert ==
    entry = "plugin" =>
        /\ converted = Cardinality(ConvertSteps \ Errored)
        /\ processed >= Cardinality(ConvertSteps)
        /\ processed >= converted + Cardinality(Errored)

\* the files that exist before a step and no longer after it
Deleted == {p \in DOMAIN fs : fs[p].exists /\ ~(p \in DOMAIN fs' /\ fs'[p].exists)}

\* C15: a step deletes a file only if it is the Convert step of a record of the
\* plugin with delete_webp set and dry_run unset, the file is that record's
\* source asset, and in that same step the JPEG was written and update_scene
\* repointed the record without raising; no other step deletes any file.
C15_SourceRemovedOnlyAfterUpdate ==
    [][Deleted # {} =>
         /\ entry = "plugin"
         /\ cfg.delete_webp /\ ~cfg.dry_run /\ ~cfg.preview_mode
         /\ pc = "loop" /\ i <= Len(scenes)
         /\ Deleted = {scenes[i].screenshot}
         /\ LET jpg == JpgPath(scenes[i].screenshot)
            IN  /\ fs'[jpg] = Jpeg
                /\ <<"write", jpg>> \in fsOps'
                /\ <<i, jpg>> \in updateCalls'
                /\ db'[i].screenshot = jpg
         /\ trace' = Append(trace, [rec |-> i, fired |-> 7,
                                    evaluated |-> <<0, 1, 2, 3, 4, 5, 6, 7>>,
                                    outcome |-> "ok"])
         /\ converted' = converted + 1]_vars

C15_Witness ==
    /\ entry = "plugin" /\ runNo = 1 /\ pc = "done"
    /\ cfg.delete_webp /\ ~cfg.dry_run
    /\ Len(trace) = 2
    /\ trace[1].fired = 7 /\ trace[1].outcome = "ok" /\ scenes[1].screenshot = AWebp
    /\ trace[2].fired = 7 /\ trace[2].outcome = "update" /\ scenes[2].screenshot = BWebp
    /\ ~Exists(AWebp) /\ Exists(BWebp)
    /\ fsOps = {<<"write", JpgPath(AWebp)>>, <<"remove", AWebp>>, <<"write", JpgPath(BWebp)>>}

\* C16: when the update_scene call of RewriteRefOnly raises, an error is
\* recorded for that record and the loop goes on with the next record: the
\* run is not aborted.
C16_RewriteFailureRecovered ==
    entry = "plugin" =>
        \A k \in 1..Len(trace) :
            (trace[k].fired = 5 /\ trace[k].outcome = "raised") =>
                /\ LinesOf("error", trace[k].rec) # {}
                /\ pc # "crashed"
                /\ i > trace[k].rec

\* C17: when the loop of the plugin is over, the report holds one line per
\* processed or errored record (number of lines = processed + number of
\* errored records), in the order in which the records were visited.
C17_OneLinePerProcessedOrErrored ==
    (entry = "plugin" /\ pc \in {"report", "done"}) =>
        /\ Len(report_lines) = processed + Cardinality(Errored)
        /\ \A a, b \in 1..Len(report_lines) :
             a < b => report_lines[a].id < report_lines[b].id

\* C18: a run of the plugin started with jpg_quality outside 1..100 or with a
\* negative batch_limit is aborted before any record is visited or mutated.
C18_InvalidSettingsAbort ==
    (entry = "plugin" /\ (cfg.jpg_quality \notin 1..100 \/ cfg.batch_limit < 0)) =>
        /\ trace = <<>>
        /\ processed = 0
        /\ updateCalls = {}
        /\ fsOps = {}

ExistedAtStart(p) == p \in DOMAIN InitialFs /\ InitialFs[p].exists

\* C19: no dangling reference.  In every state of the first run of the plugin,
\* each record whose screenshot reference named an existing asset when the run
\* started still has a reference that names an existing asset.
C19_NoDanglingReference ==
    (entry = "plugin" /\ runNo = 1 /\ listing = "ok") =>
        \A k \in 1..Len(db) :
            ExistedAtStart(scenes[k].screenshot) => Exists(db[k].screenshot)

UpdateErrors == {k \in 1..Len(stats.errors) : stats.errors[k].kind = "update"}

StatsConsistent ==
    /\ stats.successfully_replaced = Len(stats.replacements)
    /\ stats.webp_screenshots_found = stats.successfully_replaced + Cardinality(UpdateErrors)
    /\ stats.successfully_replaced <= stats.webp_screenshots_found
    /\ stats.webp_screenshots_found <= stats.total_scenes
    /\ stats.webp_screenshots_found <= Len(trace)

StatsGrow ==
    /\ stats'.total_scenes >= stats.total_scenes
    /\ stats'.webp_screenshots_found >= stats.webp_screenshots_found
    /\ stats'.successfully_replaced >= stats.successfully_replaced
    /\ Len(stats'.replacements) >= Len(stats.replacements)
    /\ SubSeq(stats'.replacements, 1, Len(stats.replacements)) = stats.replacements
    /\ Len(stats'.errors) >= Len(stats.errors)
    /\ SubSeq(stats'.errors, 1, Len(stats.errors)) = stats.errors

\* C20: in every state of process_scenes, successfully_replaced is the length
\* of replacements, webp_screenshots_found is successfully_replaced plus the
\* number of per-record update errors, successfully_replaced <=
\* webp_screenshots_found <= total_scenes, and no step decreases a counter or
\* drops an entry of replacements or errors.
C20_StatsConsistent ==
    [][entry = "remover" => (StatsConsistent /\ StatsConsistent' /\ StatsGrow)]_vars

C20_Witness ==
    /\ entry = "remover" /\ pc = "done"
    /\ stats.total_scenes = 2
    /\ stats.webp_screenshots_found = 2
    /\ stats.successfully_replaced = 1
    /\ Len(stats.replacements) = 1 /\ stats.replacements[1].id = 2
    /\ Len(stats.errors) = 1 /\ stats.errors[1] = [kind |-> "update", id |-> 1]

====
